---- MODULE Spec2Model ----
(***************************************************************************)
(* AdsorbAI physics engine (services/physicsEngine.ts), its property       *)
(* tables (constants.ts) and the handlers of the App component (App.tsx).  *)
(*                                                                         *)
(* Number representation.  The code computes in IEEE doubles; the model    *)
(* uses fixed point:                                                       *)
(*   lengths            integer multiples of 1/2000 Angstrom                 *)
(*   electronegativity  hundredths (Pauling scale x 100)                   *)
(*   radii              hundredths of an Angstrom                          *)
(*   energies           integer multiples of 1/5000 eV                     *)
(*   Math.random()      thousandths, 0 .. 999                              *)
(* Strings that the code inspects character by character (the query, the   *)
(* adsorbate label) are sequences of one-character strings; strings that   *)
(* it only stores or compares are TLA+ strings.                            *)
(***************************************************************************)
EXTENDS Integers, Sequences, FiniteSets, TLC

VARIABLES
    builds,     \* the latest (at most two) invocations of generateSlabStructure
    analyses,   \* the latest (at most two) invocations of calculateAdsorptionPhysics
    calls,      \* the invocations in flight, statement block by statement block
    arrays,     \* the arrays the invocations in flight have allocated
    app         \* the state of the App component and its handlers in flight

vars == <<builds, analyses, calls, arrays, app>>

(***************************************************************************)
(* Bounds of the model.                                                    *)
(***************************************************************************)
MaxHeadLen == 2      \* generated query prefixes have at most this many characters
MaxRowAtoms == 6     \* surface atoms of the largest structure analysed
MaxVariedAtoms == 3  \* up to this size every formula and adsorbate is analysed
MaxRerunAtoms == 1   \* surface atoms of the largest structure analysed repeatedly
MaxCalls == 2        \* invocations in flight at the same time
MaxClicks == 4       \* handlers of the App started in one run

(***************************************************************************)
(* Units.                                                                  *)
(***************************************************************************)
UnitsPerAngstrom == 2 * 1000
\* A length given in milli-Angstrom, in model units.
mA(n) == (n * UnitsPerAngstrom) \div 1000
\* v rounded down to a multiple of m: keeps the code's exact halving
\* (x_dist/2, d/2) and its y_dist/6 exact on the integer grid.
RoundTo(v, m) == (v \div m) * m

Abs(n) == IF n < 0 THEN -n ELSE n

(***************************************************************************)
(* Characters.                                                             *)
(***************************************************************************)
UpperCase == {"A","B","C","D","E","F","G","H","I","J","K","L","M",
              "N","O","P","Q","R","S","T","U","V","W","X","Y","Z"}
LowerCase == {"a","b","c","d","e","f","g","h","i","j","k","l","m",
              "n","o","p","q","r","s","t","u","v","w","x","y","z"}
Digits == {"0","1","2","3","4","5","6","7","8","9"}

(***************************************************************************)
(* constants.ts                                                            *)
(***************************************************************************)
CPK_COLORS ==
    [H |-> "#FFFFFF", C |-> "#909090", N |-> "#3050F8", O |-> "#FF0D0D",
     F |-> "#90E050", Na |-> "#AB5CF2", Mg |-> "#8AFF00", Al |-> "#BFA6A6",
     Si |-> "#F0C8A0", P |-> "#FF8000", S |-> "#FFFF30", Cl |-> "#1FF01F",
     K |-> "#8F40D4", Ca |-> "#3DFF00", Ti |-> "#BFC2C7", Fe |-> "#E06633",
     Ni |-> "#50D050", Cu |-> "#C88033", Zn |-> "#7D80B0", Au |-> "#FFD123",
     Ag |-> "#C0C0C0", Pt |-> "#D0D0E0", Pd |-> "#006985",
     X |-> "#FF00FF"]

ATOMIC_RADII ==
    [H |-> 37, C |-> 77, N |-> 75, O |-> 73, F |-> 71, Na |-> 154,
     Mg |-> 130, Al |-> 118, Si |-> 111, P |-> 106, S |-> 102, Cl |-> 99,
     K |-> 196, Ca |-> 174, Ti |-> 136, Fe |-> 125, Ni |-> 121, Cu |-> 128,
     Zn |-> 131, Au |-> 144, Ag |-> 144, Pt |-> 138, Pd |-> 137,
     X |-> 100]

ElementData(latticeMilli, mpId, en) ==
    [latticeConstant |-> mA(latticeMilli), mpId |-> mpId, formationEnergy |-> 0,
     bandGap |-> 0, symmetry |-> "Fm-3m", electronegativity |-> en]

ELEMENT_PROPERTIES ==
    [Au |-> ElementData(4078, "mp-81", 254),
     Ag |-> ElementData(4085, "mp-124", 193),
     Cu |-> ElementData(3615, "mp-30", 190),
     Pt |-> ElementData(3924, "mp-126", 228),
     Pd |-> ElementData(3890, "mp-2", 220),
     Ni |-> ElementData(3524, "mp-23", 191),
     Al |-> ElementData(4049, "mp-134", 161)]

\* What indexing a table with an absent key gives.
Undefined == [undefined |-> TRUE]
IsUndefined(v) == v = Undefined

(***************************************************************************)
(* physicsEngine.ts, part 1: structure generation                          *)
(***************************************************************************)
\* CPK_COLORS[element] || '#ff00ff'  (every tabulated colour is truthy)
ColorOf(element) ==
    IF element \in DOMAIN CPK_COLORS THEN CPK_COLORS[element] ELSE "#ff00ff"

\* ATOMIC_RADII[element] || 1.0  (every tabulated radius is truthy)
RadiusOf(element) ==
    IF element \in DOMAIN ATOMIC_RADII THEN ATOMIC_RADII[element] ELSE 100

createAtom(element, x, y, z, idOffset) ==
    [id |-> idOffset, element |-> element, x |-> x, y |-> y, z |-> z,
     color |-> ColorOf(element), radius |-> RadiusOf(element)]

\* query.match(/^([A-Z][a-z]?)/): the captured group, or Undefined.
ElementMatch(query) ==
    IF Len(query) >= 1 /\ query[1] \in UpperCase
    THEN IF Len(query) >= 2 /\ query[2] \in LowerCase
         THEN [group |-> query[1] \o query[2]]
         ELSE [group |-> query[1]]
    ELSE Undefined

\* Does /\((\d{3})\)/ match at position p of the query?
FaceAt(query, p) ==
    /\ p + 4 <= Len(query)
    /\ query[p] = "("
    /\ query[p + 1] \in Digits /\ query[p + 2] \in Digits /\ query[p + 3] \in Digits
    /\ query[p + 4] = ")"

\* query.match(/\((\d{3})\)/): the group of the leftmost match, or Undefined.
FaceMatch(query) ==
    LET hits == {p \in 1..Len(query) : FaceAt(query, p)}
    IN IF hits = {} THEN Undefined
       ELSE LET p == CHOOSE h \in hits : \A g \in hits : h <= g
            IN [group |-> query[p + 1] \o query[p + 2] \o query[p + 3]]

ParseElement(query) ==
    IF IsUndefined(ElementMatch(query)) THEN "Cu" ELSE ElementMatch(query).group

\* Mutant of ParseFace: the Miller index defaults to 100.
ParseFaceDefault100(query) ==
    IF IsUndefined(FaceMatch(query)) THEN "100" ELSE FaceMatch(query).group

ParseFace(query) ==
    IF IsUndefined(FaceMatch(query)) THEN "111" ELSE FaceMatch(query).group

\* Mutant of PropsOf: no fallback record.
PropsOfNoFallback(element) ==
    IF element \in DOMAIN ELEMENT_PROPERTIES THEN ELEMENT_PROPERTIES[element]
    ELSE Undefined

\* Mutant of PropsOf: the fallback record is that of Au.
PropsOfFallbackAu(element) ==
    IF element \in DOMAIN ELEMENT_PROPERTIES THEN ELEMENT_PROPERTIES[element]
    ELSE ELEMENT_PROPERTIES["Au"]

\* ELEMENT_PROPERTIES[element] || ELEMENT_PROPERTIES['Cu']
PropsOf(element) ==
    IF element \in DOMAIN ELEMENT_PROPERTIES THEN ELEMENT_PROPERTIES[element]
    ELSE IF "Cu" \in DOMAIN ELEMENT_PROPERTIES THEN ELEMENT_PROPERTIES["Cu"]
    ELSE Undefined

\* The numeric factors of the geometry, as ten-thousandths.
Sqrt2 == 14142       \* Math.sqrt(2)
Sqrt6 == 24495       \* Math.sqrt(6)
Sqrt3 == 17321       \* Math.sqrt(3)
TenK == 10 * 1000

\* Grid of the (111) slab and of the other terminations.
nx111 == 3
ny111 == 3
nz111 == 4
nx100 == 4
ny100 == 4
nz100 == 4

\* The cell visited at step c (from 0) of   for k { for j { for i { ... } } }.
CellI(c, nx) == c % nx
CellJ(c, nx, ny) == (c \div nx) % ny
CellK(c, nx, ny) == c \div (nx * ny)

\* Spacings of the (111) cell: x_dist = a/sqrt(2), y_dist = a*sqrt(6)/2,
\* z_layer_spacing = a/sqrt(3).
Geometry111(a) ==
    [x_dist |-> RoundTo((a * TenK) \div Sqrt2, 2),
     y_dist |-> RoundTo((a * Sqrt6) \div (2 * TenK), 6),
     z_layer_spacing |-> (a * TenK) \div Sqrt3]

\* Mutant of LatticeVectors111: the vacuum is left out of the normal vector.
LatticeVectors111NoVacuum(g) ==
    << <<g.x_dist * nx111, 0, 0>>,
       <<0, g.y_dist * ny111, 0>>,
       <<0, 0, g.z_layer_spacing * nz111>> >>

LatticeVectors111(g) ==
    << <<g.x_dist * nx111, 0, 0>>,
       <<0, g.y_dist * ny111, 0>>,
       <<0, 0, g.z_layer_spacing * nz111 + mA(10000)>> >>

\* ABC stacking: the in-plane shift of layer k.
ShiftX111(g, k) == IF k % 3 = 1 THEN g.x_dist \div 2 ELSE 0
ShiftY111(g, k) ==
    IF k % 3 = 1 THEN g.y_dist \div 6
    ELSE IF k % 3 = 2 THEN 2 * (g.y_dist \div 6)
    ELSE 0

\* Mutant of Body111: the positions are not wrapped into the footprint.
Body111NoWrap(element, g, c, id) ==
    LET i == CellI(c, nx111)
        j == CellJ(c, nx111, ny111)
        k == CellK(c, nx111, ny111)
        x == i * g.x_dist + ShiftX111(g, k)
        y == j * g.y_dist + ShiftY111(g, k)
        z == k * g.z_layer_spacing
    IN << createAtom(element, x, y, z, id),
          createAtom(element, x + g.x_dist \div 2, y + g.y_dist \div 2, z, id + 1) >>

\* Mutant of Body111: x is wrapped into a footprint one cell too short.
Body111WrapShort(element, g, c, id) ==
    LET i == CellI(c, nx111)
        j == CellJ(c, nx111, ny111)
        k == CellK(c, nx111, ny111)
        x == i * g.x_dist + ShiftX111(g, k)
        y == j * g.y_dist + ShiftY111(g, k)
        z == k * g.z_layer_spacing
    IN << createAtom(element, x % (g.x_dist * (nx111 - 1)), y % (g.y_dist * ny111), z, id),
          createAtom(element, (x + g.x_dist \div 2) % (g.x_dist * (nx111 - 1)),
                     (y + g.y_dist \div 2) % (g.y_dist * ny111), z, id + 1) >>

\* The pushes of one pass of the innermost loop body of the (111) branch, the
\* id counter standing at id when the pass begins: two pushes, id++ each.
Body111(element, g, c, id) ==
    LET i == CellI(c, nx111)
        j == CellJ(c, nx111, ny111)
        k == CellK(c, nx111, ny111)
        x == i * g.x_dist + ShiftX111(g, k)
        y == j * g.y_dist + ShiftY111(g, k)
        z == k * g.z_layer_spacing
    IN << createAtom(element, x % (g.x_dist * nx111), y % (g.y_dist * ny111), z, id),
          createAtom(element, (x + g.x_dist \div 2) % (g.x_dist * nx111),
                     (y + g.y_dist \div 2) % (g.y_dist * ny111), z, id + 1) >>

\* Mutant of Loop111: the second push of each pass is missing.
Loop111OnePerCell(element, g) ==
    [n \in 1..(nx111 * ny111 * nz111) |-> Body111(element, g, n - 1, n - 1)[1]]

\* let id = 0; for k < nz { for j < ny { for i < nx { push; push } } }:
\* pass c starts with id = 2c, and push n (from 1) is push ((n-1) % 2) + 1 of
\* pass (n-1) \div 2.
Loop111(element, g) ==
    [n \in 1..(2 * nx111 * ny111 * nz111) |->
        Body111(element, g, (n - 1) \div 2, 2 * ((n - 1) \div 2))[((n - 1) % 2) + 1]]

\* Mutant of Geometry100: the layers are one in-plane spacing apart.
Geometry100SpacingD(a) ==
    [d |-> RoundTo((a * TenK) \div Sqrt2, 2),
     layerSpacing |-> RoundTo((a * TenK) \div Sqrt2, 2)]

\* Spacings of the other terminations: d = a/sqrt(2), layerSpacing = a/2.
Geometry100(a) ==
    [d |-> RoundTo((a * TenK) \div Sqrt2, 2),
     layerSpacing |-> a \div 2]

LatticeVectors100(g) ==
    << <<g.d * nx100, 0, 0>>,
       <<0, g.d * ny100, 0>>,
       <<0, 0, (((g.d * Sqrt2) \div TenK) * nz100) \div 2 + mA(10000)>> >>

\* The push of one pass of the innermost loop body of the else branch, the id
\* counter standing at id when the pass begins.
Body100(element, g, c, id) ==
    LET i == CellI(c, nx100)
        j == CellJ(c, nx100, ny100)
        k == CellK(c, nx100, ny100)
        odd == k % 2 = 1
        x == i * g.d + (IF odd THEN g.d \div 2 ELSE 0)
        y == j * g.d + (IF odd THEN g.d \div 2 ELSE 0)
    IN createAtom(element, x, y, k * g.layerSpacing, id)

\* Mutant of Loop100: the id counter is reset at the start of every layer.
Loop100IdPerLayer(element, g) ==
    [n \in 1..(nx100 * ny100 * nz100) |->
        Body100(element, g, n - 1, (n - 1) % (nx100 * ny100))]

\* let id = 0; for k < nz { for j < ny { for i < nx { push } } }
Loop100(element, g) ==
    [n \in 1..(nx100 * ny100 * nz100) |-> Body100(element, g, n - 1, n - 1)]

Fulfilled(v) == [status |-> "fulfilled", value |-> v]
Rejected(e) == [status |-> "rejected", reason |-> e]

\* The promise generateSlabStructure(query) settles to.
generateSlabStructure(query) ==
    LET element == ParseElement(query)
        face == ParseFace(query)
        props == PropsOf(element)
    IN IF IsUndefined(props)
       THEN Rejected("TypeError")        \* props.latticeConstant of undefined
       ELSE LET a == props.latticeConstant
                atoms == IF face = "111"
                         THEN Loop111(element, Geometry111(a))
                         ELSE Loop100(element, Geometry100(a))
                latticeVectors == IF face = "111"
                                  THEN LatticeVectors111(Geometry111(a))
                                  ELSE LatticeVectors100(Geometry100(a))
            IN Fulfilled(
                 [formula |-> element,
                  mpId |-> props.mpId,
                  millerIndex |-> "(" \o face \o ")",
                  description |-> element \o " " \o face \o " Surface Slab (Simulated ASE)",
                  formationEnergy |-> props.formationEnergy,
                  bandGap |-> props.bandGap,
                  symmetry |-> props.symmetry,
                  atoms |-> atoms,
                  latticeVectors |-> latticeVectors])

(***************************************************************************)
(* physicsEngine.ts, part 2: adsorption analysis                           *)
(*                                                                         *)
(* Math.random() is the ambient generator: the code can neither seed it    *)
(* nor read its state.  calculateAdsorptionPhysics is modelled as a        *)
(* function of the stream rnd of values the generator hands out during the *)
(* call, in the order the code draws them; the stream is chosen by the     *)
(* environment at every call.                                              *)
(***************************************************************************)
\* Math.max(...atoms.map(a => a.z)) of a non-empty array.
MaxZ(atoms) ==
    CHOOSE z \in {atoms[i].z : i \in 1..Len(atoms)} :
        \A i \in 1..Len(atoms) : atoms[i].z <= z

\* Mutant of SurfaceAtoms: the band includes its lower edge.
SurfaceAtomsInclusive(atoms) ==
    IF atoms = <<>> THEN <<>>
    ELSE LET maxY == MaxZ(atoms)
             Top(a) == a.z >= maxY - mA(1500)
         IN SelectSeq(atoms, Top)

\* Mutant of SurfaceAtoms: the band is 2.5 A deep.
SurfaceAtomsWideBand(atoms) ==
    IF atoms = <<>> THEN <<>>
    ELSE LET maxY == MaxZ(atoms)
             Top(a) == a.z > maxY - mA(2500)
         IN SelectSeq(atoms, Top)

\* atoms.filter(a => a.z > maxY - 1.5); Math.max() of no arguments is
\* -Infinity, and the filter of an empty array is empty.
SurfaceAtoms(atoms) ==
    IF atoms = <<>> THEN <<>>
    ELSE LET maxY == MaxZ(atoms)
             Top(a) == a.z > maxY - mA(1500)
         IN SelectSeq(atoms, Top)

TopSite(atom) ==
    [id |-> "top-" \o ToString(atom.id),
     type |-> "Top",
     coordinates |-> <<atom.x, atom.y, atom.z + mA(2000)>>,
     energy |-> 0,
     description |-> "On-top of atom #" \o ToString(atom.id)]

\* Math.random() > 0.7 returns early: the atom is skipped.
TopSkipped(r) == r > 700

RECURSIVE TopSites(_, _, _)
\* surfaceAtoms.forEach from atom number i on, drawing rnd[i] for atom i.
TopSites(surfaceAtoms, rnd, i) ==
    IF i > Len(surfaceAtoms) THEN <<>>
    ELSE (IF TopSkipped(rnd[i]) THEN <<>> ELSE <<TopSite(surfaceAtoms[i])>>)
         \o TopSites(surfaceAtoms, rnd, i + 1)

Sq(n) == n * n
\* Mutant of InWindow: the window includes its two ends.
InWindowInclusive(a1, a2) ==
    LET d2 == Sq(a1.x - a2.x) + Sq(a1.y - a2.y) + Sq(a1.z - a2.z)
    IN d2 <= Sq(mA(3000)) /\ d2 >= Sq(mA(2000))

\* dist < 3.0 && dist > 2.0, on the squared distance.
InWindow(a1, a2) ==
    LET d2 == Sq(a1.x - a2.x) + Sq(a1.y - a2.y) + Sq(a1.z - a2.z)
    IN d2 < Sq(mA(3000)) /\ d2 > Sq(mA(2000))

RECURSIVE PairsFrom(_, _)
\* The pairs (i, j), i < j, that pass the distance test, in the order the two
\* nested loops visit them from row i on: each of them draws once.
PairsFrom(surfaceAtoms, i) ==
    IF i >= Len(surfaceAtoms) THEN <<>>
    ELSE LET Near(pair) == InWindow(surfaceAtoms[pair[1]], surfaceAtoms[pair[2]])
         IN SelectSeq([d \in 1..(Len(surfaceAtoms) - i) |-> <<i, i + d>>], Near)
            \o PairsFrom(surfaceAtoms, i + 1)

WindowPairs(surfaceAtoms) == PairsFrom(surfaceAtoms, 1)

\* Mutant of BridgeSite: the id does not name the two atoms.
BridgeSiteUnnumbered(a1, a2) ==
    [id |-> "brg",
     type |-> "Bridge",
     coordinates |-> <<(a1.x + a2.x) \div 2, (a1.y + a2.y) \div 2,
                       (a1.z + a2.z) \div 2 + mA(1800)>>,
     energy |-> 0,
     description |-> "Bridge site"]

BridgeSite(a1, a2) ==
    [id |-> "brg-" \o ToString(a1.id) \o "-" \o ToString(a2.id),
     type |-> "Bridge",
     coordinates |-> <<(a1.x + a2.x) \div 2, (a1.y + a2.y) \div 2,
                       (a1.z + a2.z) \div 2 + mA(1800)>>,
     energy |-> 0,
     description |-> "Bridge site"]

\* Math.random() > 0.8 keeps the pair.
BridgeKept(r) == r > 800

RECURSIVE BridgeSites(_, _, _, _, _)
\* The pushes of the bridge loops from window pair number p on; pair p draws
\* rnd[offset + p].
BridgeSites(surfaceAtoms, pairs, rnd, offset, p) ==
    IF p > Len(pairs) THEN <<>>
    ELSE (IF BridgeKept(rnd[offset + p])
          THEN <<BridgeSite(surfaceAtoms[pairs[p][1]], surfaceAtoms[pairs[p][2]])>>
          ELSE <<>>)
         \o BridgeSites(surfaceAtoms, pairs, rnd, offset, p + 1)

HollowSite(first, maxY) ==
    [id |-> "hollow-1",
     type |-> "Hollow",
     coordinates |-> <<first.x + mA(1200), first.y + mA(800), maxY + mA(1500)>>,
     energy |-> 0,
     description |-> "fcc hollow"]

\* sites after steps A and B.
TopAndBridge(surfaceAtoms, pairs, rnd) ==
    TopSites(surfaceAtoms, rnd, 1)
    \o BridgeSites(surfaceAtoms, pairs, rnd, Len(surfaceAtoms), 1)

\* Fewer than this many top and bridge sites brings the hollow fallback.
MinSites == 5

\* Mutant of NeedsHollow: the comparison is turned round.
NeedsHollowAbove(sites) == Len(sites) > MinSites

NeedsHollow(sites) == Len(sites) < MinSites

Includes(str, c) == \E i \in 1..Len(str) : str[i] = c

\* adsorbate.replace(/[0-9]/g, '')  (computed by the code, never used)
adsorbateElem(adsorbate) ==
    LET NoDigit(c) == c \notin Digits IN SelectSeq(adsorbate, NoDigit)

\* Mutant of enAds: a label holding C resolves to 2.55 before O is looked for.
enAdsCarbonFirst(adsorbate) ==
    IF Includes(adsorbate, "C") THEN 255
    ELSE IF Includes(adsorbate, "O") THEN 344
    ELSE IF Includes(adsorbate, "N") THEN 304
    ELSE 255

\* Mutant of enAds: N is looked for before O.
enAdsNitrogenFirst(adsorbate) ==
    IF Includes(adsorbate, "N") THEN 304
    ELSE IF Includes(adsorbate, "O") THEN 344
    ELSE 255

\* adsorbate.includes('O') ? 3.44 : (adsorbate.includes('N') ? 3.04 : 2.55)
enAds(adsorbate) ==
    IF Includes(adsorbate, "O") THEN 344
    ELSE IF Includes(adsorbate, "N") THEN 304
    ELSE 255

\* -0.5 * Math.abs(enMetal - enAds): hundredths of electronegativity to
\* energy units of 1/5000 eV.
baseBinding(bulkElem, adsorbate) ==
    -(25 * Abs(PropsOf(bulkElem).electronegativity - enAds(adsorbate)))

siteFactor(type) ==
    IF type = "Hollow" THEN -4000
    ELSE IF type = "Bridge" THEN -1000
    ELSE IF type = "Top" THEN 2500
    ELSE 0

\* Mutant of relaxation: the noise is four times as wide.
relaxationWide(r) == 4 * (r - 500)

\* (Math.random() - 0.5) * 0.2, in units of 1/5000 eV.
relaxation(r) == r - 500

\* Mutant of Scored: the noise is drawn once, before the loop.
ScoredOneDraw(sites, base, rnd, offset) ==
    [n \in 1..Len(sites) |->
        [sites[n] EXCEPT !.energy = base + siteFactor(sites[n].type)
                                    + relaxation(rnd[offset + 1])]]

\* sites.forEach(site => site.energy = ...): site number n draws rnd[offset + n].
Scored(sites, base, rnd, offset) ==
    [n \in 1..Len(sites) |->
        [sites[n] EXCEPT !.energy = base + siteFactor(sites[n].type)
                                    + relaxation(rnd[offset + n])]]

\* Mutant of Compare: the operands are swapped.
CompareDescending(a, b) == b.energy - a.energy

\* The comparator of the sort.
Compare(a, b) == a.energy - b.energy

RECURSIVE Insert(_, _)
\* s is sorted; x goes behind every element it does not precede.
Insert(s, x) ==
    IF s = <<>> THEN <<x>>
    ELSE IF Compare(x, Head(s)) < 0 THEN <<x>> \o s
    ELSE <<Head(s)>> \o Insert(Tail(s), x)

RECURSIVE SortFrom(_, _, _)
SortFrom(sites, n, done) ==
    IF n > Len(sites) THEN done ELSE SortFrom(sites, n + 1, Insert(done, sites[n]))

\* sites.sort((a, b) => a.energy - b.energy): stable, ascending.
Sort(sites) == SortFrom(sites, 1, <<>>)

\* Mutant of Slice: nothing is cut.
SliceNone(sites) == sites

MaxSites == 8

\* Mutant of Slice: the cut keeps the end of the array, .slice(-8).
SliceTail(sites) ==
    SubSeq(sites, IF Len(sites) < MaxSites THEN 1 ELSE Len(sites) - MaxSites + 1, Len(sites))

\* .slice(0, 8)
Slice(sites) == SubSeq(sites, 1, IF Len(sites) < MaxSites THEN Len(sites) ELSE MaxSites)

\* energy.toFixed(2): hundredths of an eV, nearest.
ToFixed2(e) == IF e >= 0 THEN (e + 25) \div 50 ELSE -((25 - e) \div 50)

\* The promise calculateAdsorptionPhysics(structure, adsorbate) settles to
\* when Math.random() hands out the values of rnd: one per surface atom, one
\* per window pair, one per site, one for the system id.
calculateAdsorptionPhysics(structure, adsorbate, rnd) ==
    LET surfaceAtoms == SurfaceAtoms(structure.atoms)
        pairs == WindowPairs(surfaceAtoms)
        found == TopAndBridge(surfaceAtoms, pairs, rnd)
        drawn == Len(surfaceAtoms) + Len(pairs)
    IN IF NeedsHollow(found) /\ surfaceAtoms = <<>>
       THEN Rejected("TypeError")        \* surfaceAtoms[0].x of undefined
       ELSE LET sites == IF NeedsHollow(found)
                         THEN Append(found, HollowSite(surfaceAtoms[1], MaxZ(structure.atoms)))
                         ELSE found
                scored == Scored(sites, baseBinding(structure.formula, adsorbate), rnd, drawn)
                sorted == Sort(scored)
                sortedSites == Slice(sorted)
            IN Fulfilled(
                 [sites |-> sortedSites,
                  summary |-> [found |-> Len(sorted),
                               mostStable |-> IF sortedSites = <<>> THEN Undefined
                                              ELSE [type |-> sortedSites[1].type,
                                                    energy |-> ToFixed2(sortedSites[1].energy)]],
                  potentialUsed |-> "FAIR-Chem EquiformerV2 (Simulated)",
                  calculationTime |-> "1.2s",
                  systemId |-> "sys_" \o ToString(rnd[drawn + Len(sites) + 1] * 10),
                  model |-> "equiformer_v2_31M_s2ef_all_md"])

\* The number of values a call draws for the sampling of steps A and B, and
\* after it (none when the call throws).
SamplingDraws(structure) ==
    Len(SurfaceAtoms(structure.atoms)) + Len(WindowPairs(SurfaceAtoms(structure.atoms)))
LaterDraws(structure, sampling) ==
    LET surfaceAtoms == SurfaceAtoms(structure.atoms)
        found == TopAndBridge(surfaceAtoms, WindowPairs(surfaceAtoms), sampling)
    IN IF NeedsHollow(found) /\ surfaceAtoms = <<>> THEN 0
       ELSE Len(found) + (IF NeedsHollow(found) THEN 1 ELSE 0) + 1

(***************************************************************************)
(* Inputs of build.                                                        *)
(***************************************************************************)
RECURSIVE StringsUpTo(_, _)
\* All character sequences over alphabet of length at most n.
StringsUpTo(alphabet, n) ==
    IF n = 0 THEN {<<>>}
    ELSE LET shorter == StringsUpTo(alphabet, n - 1)
         IN shorter \cup {Append(s, c) : s \in shorter, c \in alphabet}

HeadAlphabet == {"A", "C", "u", "(", "1"}
QueryHeads == StringsUpTo(HeadAlphabet, MaxHeadLen)
QueryTails ==
    { <<>>,
      <<"(", "1", "1", "1", ")">>,
      <<"(", "1", "0", "0", ")">>,
      <<"(", "1", "1", "0", ")">>,
      <<"(", "1", "1", ")">>,
      <<"1", "1", ")">>,
      <<"(", "1", "1", "1", "1", ")">>,
      <<"(", "1", "x", "0", ")">>,
      <<" ", "(", "2", "1", "1", ")", "(", "1", "1", "1", ")">> }
NamedQueries ==
    { <<"A", "u", "(", "1", "1", "1", ")">>,
      <<"C", "u", "(", "1", "0", "0", ")">>,
      <<"g", "a", "r", "b", "a", "g", "e">>,
      <<"P", "t", "(", "1", "1", "0", ")">>,
      <<"Z", "z", "(", "1", "1", "1", ")">>,
      <<"Z", "n">>,
      <<"m", "p", "-", "8", "1">>,
      <<"a", "u", "(", "1", "0", "0", ")">>,
      <<"(", "1", "0", "0", ")", "A", "g">>,
      <<"N", "i", "1", "1", "1">>,
      <<"A", "l", "(", "0", "0", "1", ")">>,
      <<"P", "d">>,
      <<"A", "g", "(", "1", "1", "1", ")">>,
      <<"P", "t", "(", "1", "1", "1", ")">>,
      <<"A", "l", "(", "1", "1", "1", ")">>,
      <<"A", "u", "(", "1", "0", "0", ")">>,
      <<"A", "g", "(", "1", "0", "0", ")">>,
      <<"P", "d", "(", "1", "0", "0", ")">>,
      <<"N", "i", "(", "1", "0", "0", ")">> }
Queries == NamedQueries \cup {h \o t : h \in QueryHeads, t \in QueryTails}

(***************************************************************************)
(* Inputs of analyze.                                                      *)
(***************************************************************************)
\* x of the n-th atom (from 1) of a test row: neighbours alternately 2.5 A
\* (inside the bridge window) and 4.0 A (outside it) apart.
RowX(n) == ((n - 1) \div 2) * mA(6500) + ((n - 1) % 2) * mA(2500)

\* A structure of n atoms in a row at height 4.0 A, behind `below` atoms lying
\* exactly 1.5 A lower (on the edge of the surface band).
RowStructure(formula, n, below) ==
    LET props == PropsOf(formula)
    IN [formula |-> formula,
        mpId |-> props.mpId,
        millerIndex |-> "(111)",
        description |-> formula \o " 111 Surface Slab (Simulated ASE)",
        formationEnergy |-> props.formationEnergy,
        bandGap |-> props.bandGap,
        symmetry |-> props.symmetry,
        atoms |-> [i \in 1..(below + n) |->
                      IF i <= below
                      THEN createAtom(formula, RowX(i), mA(1000), mA(2500), i - 1)
                      ELSE createAtom(formula, RowX(i - below), 0, mA(4000), i - 1)],
        latticeVectors |-> << <<mA(30000), 0, 0>>, <<0, mA(30000), 0>>, <<0, 0, mA(30000)>> >>]

Formulas == {"Au", "Zz"}
Adsorbates == { <<"C", "O">>, <<"N", "2">>, <<"H", "2">> }

\* Further adsorbate labels: with and without digits, with O, with N, with
\* both, with neither, in lower case, empty.
Labels ==
    { <<>>, <<"O", "2">>, <<"N", "O", "2">>, <<"N", "H", "3">>, <<"C", "H", "4">>,
      <<"H", "2", "O">>, <<"c", "o">>, <<"2", "0", "2", "0">>, <<"N", "O">> }

\* The calls analysed once: every formula and adsorbate on the small rows, CO
\* on Au on the large ones.
AnalysisInputs ==
    {<<RowStructure(f, n, 0), ads>> : f \in Formulas, n \in 0..MaxVariedAtoms,
                                      ads \in Adsorbates}
    \cup {<<RowStructure("Cu", n, 1), ads>> : n \in 1..MaxVariedAtoms, ads \in Adsorbates}
    \cup {<<RowStructure("Au", n, 0), <<"C", "O">> >> : n \in 0..MaxRowAtoms}

\* A structure of three atoms in a row whose neighbours lie exactly 2.0 A and
\* exactly 3.0 A apart: on the two ends of the bridge window.
EdgeStructure(formula) ==
    [RowStructure(formula, 0, 0) EXCEPT
        !.atoms = << createAtom(formula, 0, 0, mA(4000), 0),
                     createAtom(formula, mA(2000), 0, mA(4000), 1),
                     createAtom(formula, mA(5000), 0, mA(4000), 2) >>]

\* The calls analysed once for what the energies are made of: every formula
\* and adsorbate on the small rows, every label on the single atom, CO on the
\* row on the ends of the window.
VariedInputs ==
    {<<RowStructure(f, n, 0), ads>> : f \in Formulas, n \in 0..MaxVariedAtoms,
                                      ads \in Adsorbates}
    \cup {<<RowStructure("Cu", n, 1), ads>> : n \in 1..MaxVariedAtoms, ads \in Adsorbates}
    \cup {<<RowStructure(f, 1, 0), ads>> : f \in Formulas, ads \in Labels}
    \cup {<<EdgeStructure("Au"), <<"C", "O">> >>}

\* The calls analysed repeatedly.
RerunInputs ==
    {<<RowStructure(f, n, 0), ads>> : f \in Formulas, n \in 0..MaxRerunAtoms,
                                      ads \in Adsorbates}

\* The values Math.random() hands out in the model: the two ends of [0, 1).
RandVals == {0, 999}

(***************************************************************************)
(* Operations.                                                             *)
(***************************************************************************)
\* The requests that may be in flight at the same time.
Slots == 1..MaxCalls

\* enum AnalysisStatus
AnalysisStatus == {"IDLE", "LOADING_STRUCTURE", "ANALYZING", "COMPLETED", "ERROR"}

\* null, the initial value of structure and analysisResult.
Null == [null |-> TRUE]

\* No invocation in a slot.
Idle == [op |-> "none", pc |-> "idle", input |-> <<>>, local |-> <<>>,
         rnd |-> <<>>, result |-> Undefined]

Init ==
    /\ builds = <<>>
    /\ analyses = <<>>
    /\ calls = [p \in Slots |-> Idle]
    /\ arrays = [c \in {"atoms", "sites"} \X Slots |-> <<>>]
    /\ app = [query |-> "Au(111)", adsorbate |-> "CO",
              structure |-> Null, analysisResult |-> Null, status |-> "IDLE",
              handlers |-> {}, started |-> 0]

\* The history h with entry e added, cut to its latest two entries.
Latest(h, e) == IF Len(h) < 2 THEN Append(h, e) ELSE <<h[2], e>>

\* Mutant of Build: the atoms array outlives the call, so a build appends to
\* the atoms of the build before it.
BuildSharedAtoms(query) ==
    LET fresh == generateSlabStructure(query)
        kept == IF builds # <<>> /\ builds[Len(builds)].result.status = "fulfilled"
                THEN builds[Len(builds)].result.value.atoms ELSE <<>>
        result == IF fresh.status = "fulfilled"
                  THEN Fulfilled([fresh.value EXCEPT !.atoms = kept \o fresh.value.atoms])
                  ELSE fresh
    IN /\ builds' = Latest(builds, [query |-> query, result |-> result])
       /\ UNCHANGED <<analyses, calls, arrays, app>>

\* One invocation of generateSlabStructure(query).
Build(query) ==
    /\ builds' = Latest(builds, [query |-> query, result |-> generateSlabStructure(query)])
    /\ UNCHANGED <<analyses, calls, arrays, app>>

\* A single build, for any query.
BuildAny ==
    /\ builds = <<>>
    /\ \E q \in Queries : Build(q)

\* Builds of the named queries, one after the other.
BuildNamed == \E q \in NamedQueries : Build(q)

\* One invocation of calculateAdsorptionPhysics(structure, adsorbate); the
\* environment chooses what each Math.random() of the call returns.
Analyze(structure, adsorbate) ==
    \E sampling \in [1..SamplingDraws(structure) -> RandVals] :
        \E rest \in [1..LaterDraws(structure, sampling) -> RandVals] :
            /\ analyses' = Latest(analyses,
                   [structure |-> structure,
                    adsorbate |-> adsorbate,
                    rnd |-> sampling \o rest,
                    result |-> calculateAdsorptionPhysics(structure, adsorbate,
                                                          sampling \o rest)])
            /\ UNCHANGED <<builds, calls, arrays, app>>

\* A single analysis.
AnalyzeAny ==
    /\ analyses = <<>>
    /\ \E in \in AnalysisInputs : Analyze(in[1], in[2])

\* A single analysis of a small structure, for any label.
AnalyzeVaried ==
    /\ analyses = <<>>
    /\ \E in \in VariedInputs : Analyze(in[1], in[2])

\* Analyses of the small structures, one after the other.
AnalyzeSmall == \E in \in RerunInputs : Analyze(in[1], in[2])

(***************************************************************************)
(* Invocations in flight together.  Both functions are async functions     *)
(* without an await, so in one JavaScript realm each call runs to its end  *)
(* before another starts; the model lets the calls interleave between any  *)
(* two statement blocks, which includes those runs.  A call keeps its      *)
(* locals in its own frame (calls[p].local); the arrays it allocates       *)
(* (atoms, sites) lie on the heap (arrays), and the frame holds their      *)
(* address.  When a call returns, the heap cell it worked on is no longer  *)
(* referred to by a frame and is cleared.                                  *)
(***************************************************************************)
\* The queries and analyses that requests in flight together ask for.
ConcurrentQueries ==
    { <<"A", "u", "(", "1", "1", "1", ")">>, <<"C", "u", "(", "1", "0", "0", ")">> }
ConcurrentAnalyses ==
    { <<RowStructure("Cu", 1, 1), <<"C", "O">> >>,
      <<RowStructure("Au", 0, 0), <<"C", "O">> >> }

\* Mutant of Alloc: the array is one array of the module, not of the call.
AllocShared(kind, p) == <<kind, 1>>

\* let atoms = [] / const sites = []: the address of the array that
\* invocation p allocates, an array of its own.
Alloc(kind, p) == <<kind, p>>

\* A request arrives and generateSlabStructure(query) is called.
InvokeBuild(p) ==
    /\ calls[p].pc \in {"idle", "done"}
    /\ \E query \in ConcurrentQueries :
         calls' = [calls EXCEPT ![p] = [Idle EXCEPT !.op = "build", !.pc = "parse",
                                                    !.input = query]]
    /\ UNCHANGED <<builds, analyses, arrays, app>>

\* Lines 29-40: the parse, the lookup, the empty arrays.
BuildParse(p) ==
    /\ calls[p].op = "build" /\ calls[p].pc = "parse"
    /\ LET element == ParseElement(calls[p].input)
           face == ParseFace(calls[p].input)
           props == PropsOf(element)
       IN IF IsUndefined(props)
          THEN /\ calls' = [calls EXCEPT ![p].pc = "done",
                                         ![p].result = Rejected("TypeError")]
               /\ UNCHANGED arrays
          ELSE /\ calls' = [calls EXCEPT ![p].pc = "vectors",
                               ![p].local = [element |-> element, face |-> face,
                                             props |-> props, a |-> props.latticeConstant,
                                             atoms |-> Alloc("atoms", p),
                                             latticeVectors |-> <<>>, id |-> 0, k |-> 0]]
               /\ arrays' = [arrays EXCEPT ![Alloc("atoms", p)] = <<>>]
    /\ UNCHANGED <<builds, analyses, app>>

\* Lines 43-63 or 98-117: the spacings, the lattice vectors, id = 0.
BuildVectors(p) ==
    /\ calls[p].op = "build" /\ calls[p].pc = "vectors"
    /\ LET l == calls[p].local
       IN calls' = [calls EXCEPT ![p].pc = "layer",
                      ![p].local.latticeVectors =
                          IF l.face = "111" THEN LatticeVectors111(Geometry111(l.a))
                          ELSE LatticeVectors100(Geometry100(l.a)),
                      ![p].local.id = 0,
                      ![p].local.k = 0]
    /\ UNCHANGED <<builds, analyses, arrays, app>>

\* The pushes of one pass of the outermost loop (layer k), the id counter
\* standing at id when the pass begins.
LayerPushes(l) ==
    IF l.face = "111"
    THEN [n \in 1..(2 * nx111 * ny111) |->
            Body111(l.element, Geometry111(l.a),
                    nx111 * ny111 * l.k + (n - 1) \div 2,
                    l.id + 2 * ((n - 1) \div 2))[((n - 1) % 2) + 1]]
    ELSE [n \in 1..(nx100 * ny100) |->
            Body100(l.element, Geometry100(l.a), nx100 * ny100 * l.k + n - 1,
                    l.id + n - 1)]

\* Lines 64-95 or 118-131: one pass of for (let k = 0; k < nz; k++).
BuildLayer(p) ==
    /\ calls[p].op = "build" /\ calls[p].pc = "layer"
    /\ LET l == calls[p].local
           nz == IF l.face = "111" THEN nz111 ELSE nz100
           pushes == LayerPushes(l)
       IN /\ arrays' = [arrays EXCEPT ![l.atoms] = arrays[l.atoms] \o pushes]
          /\ calls' = [calls EXCEPT ![p].local.id = l.id + Len(pushes),
                                    ![p].local.k = l.k + 1,
                                    ![p].pc = IF l.k + 1 < nz THEN "layer" ELSE "return"]
    /\ UNCHANGED <<builds, analyses, app>>

\* Lines 134-144: the structure returned.
BuildReturn(p) ==
    /\ calls[p].op = "build" /\ calls[p].pc = "return"
    /\ LET l == calls[p].local
       IN /\ calls' = [calls EXCEPT ![p].pc = "done", ![p].local = <<>>,
                ![p].result = Fulfilled(
                    [formula |-> l.element,
                     mpId |-> l.props.mpId,
                     millerIndex |-> "(" \o l.face \o ")",
                     description |-> l.element \o " " \o l.face
                                     \o " Surface Slab (Simulated ASE)",
                     formationEnergy |-> l.props.formationEnergy,
                     bandGap |-> l.props.bandGap,
                     symmetry |-> l.props.symmetry,
                     atoms |-> arrays[l.atoms],
                     latticeVectors |-> l.latticeVectors])]
          /\ arrays' = [arrays EXCEPT ![l.atoms] = <<>>]
    /\ UNCHANGED <<builds, analyses, app>>

\* A request arrives and calculateAdsorptionPhysics(structure, adsorbate) is
\* called.
InvokeAnalyze(p) ==
    /\ calls[p].pc \in {"idle", "done"}
    /\ \E in \in ConcurrentAnalyses :
         calls' = [calls EXCEPT ![p] = [Idle EXCEPT !.op = "analyze", !.pc = "surface",
                                                    !.input = in]]
    /\ UNCHANGED <<builds, analyses, arrays, app>>

\* Mutant of AnalyzeSurface: the atoms of the structure passed in are put
\* highest first with the in-place structure.atoms.reverse().
AnalyzeSurfaceReversesInput(p) ==
    /\ calls[p].op = "analyze" /\ calls[p].pc = "surface"
    /\ LET atoms == calls[p].input[1].atoms
           reversed == [n \in 1..Len(atoms) |-> atoms[Len(atoms) + 1 - n]]
       IN calls' = [calls EXCEPT ![p].pc = "top",
                      ![p].input[1].atoms = reversed,
                      ![p].local = [surfaceAtoms |-> SurfaceAtoms(reversed),
                                    sites |-> Alloc("sites", p)]]
    /\ arrays' = [arrays EXCEPT ![Alloc("sites", p)] = <<>>]
    /\ UNCHANGED <<builds, analyses, app>>

\* Lines 155-159: the surface atoms, the empty sites array.
AnalyzeSurface(p) ==
    /\ calls[p].op = "analyze" /\ calls[p].pc = "surface"
    /\ calls' = [calls EXCEPT ![p].pc = "top",
                   ![p].local = [surfaceAtoms |-> SurfaceAtoms(calls[p].input[1].atoms),
                                 sites |-> Alloc("sites", p)]]
    /\ arrays' = [arrays EXCEPT ![Alloc("sites", p)] = <<>>]
    /\ UNCHANGED <<builds, analyses, app>>

\* Lines 162-173: the top sites, one draw for each surface atom.
AnalyzeTop(p) ==
    /\ calls[p].op = "analyze" /\ calls[p].pc = "top"
    /\ LET l == calls[p].local
       IN \E drawn \in [1..Len(l.surfaceAtoms) -> RandVals] :
            /\ arrays' = [arrays EXCEPT ![l.sites] =
                              arrays[l.sites] \o TopSites(l.surfaceAtoms, drawn, 1)]
            /\ calls' = [calls EXCEPT ![p].pc = "bridge",
                                      ![p].rnd = calls[p].rnd \o drawn]
    /\ UNCHANGED <<builds, analyses, app>>

\* Lines 176-195: the bridge sites, one draw for each pair in the window.
AnalyzeBridge(p) ==
    /\ calls[p].op = "analyze" /\ calls[p].pc = "bridge"
    /\ LET l == calls[p].local
           pairs == WindowPairs(l.surfaceAtoms)
       IN \E drawn \in [1..Len(pairs) -> RandVals] :
            /\ arrays' = [arrays EXCEPT ![l.sites] =
                              arrays[l.sites] \o BridgeSites(l.surfaceAtoms, pairs, drawn, 0, 1)]
            /\ calls' = [calls EXCEPT ![p].pc = "hollow",
                                      ![p].rnd = calls[p].rnd \o drawn]
    /\ UNCHANGED <<builds, analyses, app>>

\* Lines 200-209: the hollow fallback.
AnalyzeHollow(p) ==
    /\ calls[p].op = "analyze" /\ calls[p].pc = "hollow"
    /\ LET l == calls[p].local
       IN IF ~NeedsHollow(arrays[l.sites])
          THEN /\ calls' = [calls EXCEPT ![p].pc = "score"]
               /\ UNCHANGED arrays
          ELSE IF l.surfaceAtoms = <<>>
          THEN /\ calls' = [calls EXCEPT ![p].pc = "done", ![p].local = <<>>,
                                         ![p].result = Rejected("TypeError")]
               /\ arrays' = [arrays EXCEPT ![l.sites] = <<>>]
          ELSE /\ calls' = [calls EXCEPT ![p].pc = "score"]
               /\ arrays' = [arrays EXCEPT ![l.sites] =
                                 Append(arrays[l.sites],
                                        HollowSite(l.surfaceAtoms[1],
                                                   MaxZ(calls[p].input[1].atoms)))]
    /\ UNCHANGED <<builds, analyses, app>>

\* Lines 213-235: the energies, one draw for each site of the array.
AnalyzeScore(p) ==
    /\ calls[p].op = "analyze" /\ calls[p].pc = "score"
    /\ LET l == calls[p].local
           base == baseBinding(calls[p].input[1].formula, calls[p].input[2])
       IN \E drawn \in [1..Len(arrays[l.sites]) -> RandVals] :
            /\ arrays' = [arrays EXCEPT ![l.sites] = Scored(arrays[l.sites], base, drawn, 0)]
            /\ calls' = [calls EXCEPT ![p].pc = "return",
                                      ![p].rnd = calls[p].rnd \o drawn]
    /\ UNCHANGED <<builds, analyses, app>>

\* Lines 238-247: the sort in place, the slice, the result.
AnalyzeReturn(p) ==
    /\ calls[p].op = "analyze" /\ calls[p].pc = "return"
    /\ LET l == calls[p].local
           sorted == Sort(arrays[l.sites])
           sortedSites == Slice(sorted)
       IN \E r \in RandVals :
            /\ calls' = [calls EXCEPT ![p].pc = "done", ![p].local = <<>>,
                  ![p].rnd = Append(calls[p].rnd, r),
                  ![p].result = Fulfilled(
                     [sites |-> sortedSites,
                      summary |-> [found |-> Len(sorted),
                                   mostStable |-> IF sortedSites = <<>> THEN Undefined
                                                  ELSE [type |-> sortedSites[1].type,
                                                        energy |-> ToFixed2(sortedSites[1].energy)]],
                      potentialUsed |-> "FAIR-Chem EquiformerV2 (Simulated)",
                      calculationTime |-> "1.2s",
                      systemId |-> "sys_" \o ToString(r * 10),
                      model |-> "equiformer_v2_31M_s2ef_all_md"])]
            /\ arrays' = [arrays EXCEPT ![l.sites] = <<>>]
    /\ UNCHANGED <<builds, analyses, app>>

\* Any invocation in flight takes its next step, or a request arrives.
Interleave ==
    \E p \in Slots :
        \/ InvokeBuild(p) \/ BuildParse(p) \/ BuildVectors(p) \/ BuildLayer(p)
        \/ BuildReturn(p)
        \/ InvokeAnalyze(p) \/ AnalyzeSurface(p) \/ AnalyzeTop(p) \/ AnalyzeBridge(p)
        \/ AnalyzeHollow(p) \/ AnalyzeScore(p) \/ AnalyzeReturn(p)

(***************************************************************************)
(* App.tsx: the two handlers.                                              *)
(*                                                                         *)
(* app.handlers holds a frame for every handler that has started and not   *)
(* yet ended: its place (at the timer, at the service call) and what its   *)
(* closure captured at the click.  The statements between two awaits run   *)
(* without interruption and React renders before the next event, so the    *)
(* buttons are enabled or disabled by the state a step leaves.  The        *)
(* service called is services/geminiService: a promise that is fulfilled   *)
(* with a new object or rejected (the variant that is disabled always      *)
(* rejects).                                                               *)
(***************************************************************************)
\* What the user may have typed in the two inputs at a click.
AppQueries == {"", "Au(111)", "Cu(100)"}
AppAdsorbates == {"", "CO"}

\* onChange of the query input: setQuery(e.target.value).
setQuery ==
    /\ \E query \in AppQueries :
         /\ query # app.query
         /\ app' = [app EXCEPT !.query = query]
    /\ UNCHANGED <<builds, analyses, calls, arrays>>

\* onChange of the adsorbate input: setAdsorbate(e.target.value).
setAdsorbate ==
    /\ \E adsorbate \in AppAdsorbates :
         /\ adsorbate # app.adsorbate
         /\ app' = [app EXCEPT !.adsorbate = adsorbate]
    /\ UNCHANGED <<builds, analyses, calls, arrays>>

\* A click on the build button (disabled while status is LOADING_STRUCTURE):
\* handleGenerateStructure up to its first await, the timer of 600 ms.
handleGenerateStructure ==
    /\ app.started < MaxClicks
    /\ app.status # "LOADING_STRUCTURE"
    /\ app.query # ""                                  \* if (!query) return
    /\ app' = [app EXCEPT
                 !.status = "LOADING_STRUCTURE",
                 !.structure = Null,
                 !.analysisResult = Null,
                 !.started = app.started + 1,
                 !.handlers = app.handlers \cup
                     {[id |-> app.started + 1, handler |-> "handleGenerateStructure",
                       pc |-> "timer", query |-> app.query, structure |-> Null,
                       adsorbate |-> ""]}]
    /\ UNCHANGED <<builds, analyses, calls, arrays>>

\* The handler started by click id is in flight; its frame.
InFlight(id) == \E h \in app.handlers : h.id = id
Frame(id) == CHOOSE h \in app.handlers : h.id = id

\* The timer of a build fires: generateStructure(query, mpApiKey) is called
\* and awaited.
BuildTimer(id) ==
    /\ InFlight(id)
    /\ LET h == Frame(id)
       IN /\ h.handler = "handleGenerateStructure" /\ h.pc = "timer"
          /\ app' = [app EXCEPT !.handlers = (app.handlers \ {h}) \cup {[h EXCEPT !.pc = "service"]}]
    /\ UNCHANGED <<builds, analyses, calls, arrays>>

\* The promise of generateStructure is fulfilled: setStructure(struct),
\* setStatus(IDLE).  The structure is a new object, of this build.
BuildFulfilled(id) ==
    /\ InFlight(id)
    /\ LET h == Frame(id)
       IN /\ h.handler = "handleGenerateStructure" /\ h.pc = "service"
          /\ app' = [app EXCEPT !.structure = [query |-> h.query, build |-> h.id],
                                !.status = "IDLE",
                                !.handlers = app.handlers \ {h}]
    /\ UNCHANGED <<builds, analyses, calls, arrays>>

\* The promise of generateStructure is rejected: the catch, setStatus(ERROR).
BuildRejected(id) ==
    /\ InFlight(id)
    /\ LET h == Frame(id)
       IN /\ h.handler = "handleGenerateStructure" /\ h.pc = "service"
          /\ app' = [app EXCEPT !.status = "ERROR", !.handlers = app.handlers \ {h}]
    /\ UNCHANGED <<builds, analyses, calls, arrays>>

\* A click on the analysis button (disabled while there is no structure or
\* status is ANALYZING): handleRunAnalysis up to its first await, the timer
\* of 800 ms.  The closure holds the structure and the adsorbate of the
\* render the click was made on.
handleRunAnalysis ==
    /\ app.started < MaxClicks
    /\ app.structure # Null /\ app.status # "ANALYZING"
    /\ app.adsorbate # ""                              \* if (!structure || !adsorbate) return
    /\ app' = [app EXCEPT
                 !.status = "ANALYZING",
                 !.started = app.started + 1,
                 !.handlers = app.handlers \cup
                     {[id |-> app.started + 1, handler |-> "handleRunAnalysis",
                       pc |-> "timer", query |-> "", structure |-> app.structure,
                       adsorbate |-> app.adsorbate]}]
    /\ UNCHANGED <<builds, analyses, calls, arrays>>

\* The timer of an analysis fires: analyzeAdsorption(structure, adsorbate) is
\* called, on the structure of the closure, and awaited.
AnalysisTimer(id) ==
    /\ InFlight(id)
    /\ LET h == Frame(id)
       IN /\ h.handler = "handleRunAnalysis" /\ h.pc = "timer"
          /\ app' = [app EXCEPT !.handlers = (app.handlers \ {h}) \cup {[h EXCEPT !.pc = "service"]}]
    /\ UNCHANGED <<builds, analyses, calls, arrays>>

\* The promise of analyzeAdsorption is fulfilled: setAnalysisResult(result),
\* setStatus(COMPLETED).  The result is that of the structure passed.
AnalysisFulfilled(id) ==
    /\ InFlight(id)
    /\ LET h == Frame(id)
       IN /\ h.handler = "handleRunAnalysis" /\ h.pc = "service"
          /\ app' = [app EXCEPT !.analysisResult = [structure |-> h.structure,
                                                    adsorbate |-> h.adsorbate,
                                                    analysis |-> h.id],
                                !.status = "COMPLETED",
                                !.handlers = app.handlers \ {h}]
    /\ UNCHANGED <<builds, analyses, calls, arrays>>

\* The promise of analyzeAdsorption is rejected: the catch, setStatus(ERROR).
AnalysisRejected(id) ==
    /\ InFlight(id)
    /\ LET h == Frame(id)
       IN /\ h.handler = "handleRunAnalysis" /\ h.pc = "service"
          /\ app' = [app EXCEPT !.status = "ERROR", !.handlers = app.handlers \ {h}]
    /\ UNCHANGED <<builds, analyses, calls, arrays>>

\* The next step of the handler started by click id.
Continue(id) ==
    \/ BuildTimer(id) \/ BuildFulfilled(id) \/ BuildRejected(id)
    \/ AnalysisTimer(id) \/ AnalysisFulfilled(id) \/ AnalysisRejected(id)

\* An event of the page: an input changes, a button is clicked, a timer
\* fires or a promise settles.
AppNext ==
    \/ setQuery
    \/ setAdsorbate
    \/ handleGenerateStructure
    \/ handleRunAnalysis
    \/ \E id \in 1..MaxClicks :
         \/ BuildTimer(id) \/ BuildFulfilled(id) \/ BuildRejected(id)
         \/ AnalysisTimer(id) \/ AnalysisFulfilled(id) \/ AnalysisRejected(id)

SpecApp == Init /\ [][AppNext]_vars
\* Timers fire and the promises of the service settle.
SpecAppFair == SpecApp /\ \A id \in 1..MaxClicks : WF_vars(Continue(id))

SpecBuild == Init /\ [][BuildAny]_vars
SpecRebuild == Init /\ [][BuildNamed]_vars
SpecAnalyze == Init /\ [][AnalyzeAny]_vars
SpecAnalyzeVaried == Init /\ [][AnalyzeVaried]_vars
SpecReanalyze == Init /\ [][AnalyzeSmall]_vars
SpecConcurrent == Init /\ [][Interleave]_vars

(***************************************************************************)
(* Properties.                                                             *)
(***************************************************************************)
Built == {builds[i] : i \in 1..Len(builds)}
BuiltOk == {b \in Built : b.result.status = "fulfilled"}
Analysed == {analyses[i] : i \in 1..Len(analyses)}
AnalysedOk == {a \in Analysed : a.result.status = "fulfilled"}

\* C1: the sites of every returned AnalysisResult are in ascending energy
\* order, sites[i].energy <= sites[i+1].energy, whatever the random draws.
C1_SitesAscending ==
    \A a \in AnalysedOk :
        \A i \in 1..(Len(a.result.value.sites) - 1) :
            a.result.value.sites[i].energy <= a.result.value.sites[i + 1].energy

\* A result in which the sort moved sites: the hollow site, pushed last, comes
\* first, and a top site, pushed first, comes last.
C1_Witness ==
    \E a \in AnalysedOk :
        LET sites == a.result.value.sites
        IN /\ Len(sites) >= 3
           /\ sites[1].type = "Hollow"
           /\ sites[2].type = "Bridge"
           /\ sites[Len(sites)].type = "Top"

\* C2: analyze never returns more than 8 sites.
C2_AtMostEightSites ==
    \A a \in AnalysedOk : Len(a.result.value.sites) <= 8

\* A result cut down from more than 8 candidates.
C2_Witness ==
    \E a \in AnalysedOk :
        a.result.value.summary.found > 8 /\ Len(a.result.value.sites) = 8

\* C3: analyze on a structure with zero atoms fails with the explicit
\* Empty-structure condition, neither returning a result nor failing with an
\* unrelated error.
C3_EmptyStructureCondition ==
    \A a \in Analysed :
        a.structure.atoms = <<>> =>
            a.result.status = "rejected" /\ a.result.reason = "EmptyStructure"

\* C4: two analyze calls on the same structure and adsorbate produce identical
\* sites and energies (the code offers no seed to hold equal besides them).
C4_SameInputsSameSites ==
    \A a1, a2 \in AnalysedOk :
        (a1.structure = a2.structure /\ a1.adsorbate = a2.adsorbate)
            => a1.result.value.sites = a2.result.value.sites

RECURSIVE Join(_)
\* The string spelled by a sequence of characters.
Join(cs) == IF cs = <<>> THEN "" ELSE Head(cs) \o Join(Tail(cs))

\* The element a query spells at its start: an upper-case letter and, if one
\* follows, a lower-case letter; Cu when the query starts otherwise.
C6_Element(q) ==
    IF q # <<>> /\ q[1] \in UpperCase
    THEN IF Len(q) >= 2 /\ q[2] \in LowerCase THEN q[1] \o q[2] ELSE q[1]
    ELSE "Cu"

\* The positions of the query where a parenthesised group of 3 digits starts.
C6_Groups(q) ==
    {p \in 1..(Len(q) - 4) :
        /\ q[p] = "(" /\ q[p + 4] = ")"
        /\ \A d \in 1..3 : q[p + d] \in Digits}

\* The Miller index of a query, in parentheses: the digits of its first
\* group, 111 when it has none.
C6_Miller(q) ==
    IF C6_Groups(q) = {} THEN "(111)"
    ELSE LET p == CHOOSE g \in C6_Groups(q) : \A h \in C6_Groups(q) : g <= h
         IN Join(SubSeq(q, p, p + 4))

\* C6: the formula is the element at the start of the query, else the
\* fallback element; the Miller index is the 3-digit content of a
\* parenthesised group, else 111; so "Au(111)" gives Au and (111), and
\* "garbage" gives the fallback element and (111).
C6_QueryParsing ==
    \A b \in BuiltOk :
        /\ b.result.value.formula = C6_Element(b.query)
        /\ b.result.value.millerIndex = C6_Miller(b.query)
        /\ b.query = <<"A", "u", "(", "1", "1", "1", ")">> =>
               b.result.value.formula = "Au" /\ b.result.value.millerIndex = "(111)"
        /\ b.query = <<"g", "a", "r", "b", "a", "g", "e">> =>
               b.result.value.formula = "Cu" /\ b.result.value.millerIndex = "(111)"

\* "garbage" was built, with both defaults.
C6_Witness ==
    \E b \in BuiltOk :
        /\ b.query = <<"g", "a", "r", "b", "a", "g", "e">>
        /\ b.result.value.formula = "Cu"
        /\ b.result.value.millerIndex = "(111)"

\* C7: build never fails: every query yields a MaterialStructure.
C7_BuildNeverFails ==
    \A b \in Built :
        /\ b.result.status = "fulfilled"
        /\ Len(b.result.value.atoms) > 0
        /\ Len(b.result.value.latticeVectors) = 3

\* A query with an element outside the tables and a malformed Miller index
\* was built.
C7_Witness ==
    \E b \in BuiltOk :
        /\ b.query = <<"A", "(", "1", "1", ")">>
        /\ b.result.value.formula \notin DOMAIN ELEMENT_PROPERTIES
        /\ b.result.value.millerIndex = "(111)"

\* Is the structure built on the physical record rec?
C8_BuiltOn(structure, rec) ==
    /\ structure.mpId = rec.mpId
    /\ structure.formationEnergy = rec.formationEnergy
    /\ structure.bandGap = rec.bandGap
    /\ structure.symmetry = rec.symmetry
    /\ structure.latticeVectors \in {LatticeVectors111(Geometry111(rec.latticeConstant)),
                                     LatticeVectors100(Geometry100(rec.latticeConstant))}

C8_Untabulated == {b \in Built : C6_Element(b.query) \notin DOMAIN ELEMENT_PROPERTIES}

\* C8 as claimed: an element that the physical table does not hold resolves
\* to the record of key X, which the physical and the display tables define.
C8_UnknownResolvesToX ==
    \A b \in C8_Untabulated :
        /\ "X" \in DOMAIN ELEMENT_PROPERTIES
        /\ "X" \in DOMAIN CPK_COLORS /\ "X" \in DOMAIN ATOMIC_RADII
        /\ b.result.status = "fulfilled"
        /\ C8_BuiltOn(b.result.value, ELEMENT_PROPERTIES["X"])

\* C8 amended: an element that the physical table does not hold resolves to
\* the record of Cu and the lookup never fails; key X is defined by the
\* display tables only.
C8_UnknownResolvesToCu ==
    /\ "X" \notin DOMAIN ELEMENT_PROPERTIES
    /\ "X" \in DOMAIN CPK_COLORS /\ "X" \in DOMAIN ATOMIC_RADII
    /\ \A b \in C8_Untabulated :
        /\ b.result.status = "fulfilled"
        /\ C8_BuiltOn(b.result.value, ELEMENT_PROPERTIES["Cu"])
        /\ b.result.value.formula = C6_Element(b.query)

\* An element outside the physical table was built, on either path.
C8_Witness ==
    \E b \in C8_Untabulated :
        /\ b.result.status = "fulfilled"
        /\ b.result.value.formula = "A"
        /\ b.result.value.mpId = "mp-30"
        /\ b.result.value.millerIndex = "(100)"

\* C9: every atom of a symbol absent from the display tables has colour
\* "#FF00FF" and radius 1.0, and creating it never fails; every atom of a
\* tabulated symbol has the tabulated colour and radius.
C9_DisplayFallback ==
    \A b \in Built :
        /\ b.result.status = "fulfilled"
        /\ \A n \in 1..Len(b.result.value.atoms) :
            LET atom == b.result.value.atoms[n]
            IN IF atom.element \in DOMAIN CPK_COLORS
               THEN atom.color = CPK_COLORS[atom.element]
                    /\ atom.radius = ATOMIC_RADII[atom.element]
               ELSE atom.color = "#FF00FF" /\ atom.radius = 100

\* C10: a query whose Miller index is 111, given or defaulted, yields exactly
\* 72 atoms, two for each of the 3 x 3 x 4 cells: pushes 2c+1 and 2c+2 are the
\* two atoms of cell c, at different places of layer c \div 9, and each of the
\* 4 layers holds 18 atoms.
C10_Slab111Has72Atoms ==
    \A b \in BuiltOk :
        b.result.value.millerIndex = "(111)" =>
            LET atoms == b.result.value.atoms
                spacing == Geometry111(PropsOf(b.result.value.formula).latticeConstant).z_layer_spacing
            IN /\ Len(atoms) = 72
               /\ \A c \in 0..35 :
                    /\ atoms[2 * c + 1].z = (c \div 9) * spacing
                    /\ atoms[2 * c + 2].z = (c \div 9) * spacing
                    /\ <<atoms[2 * c + 1].x, atoms[2 * c + 1].y>>
                         # <<atoms[2 * c + 2].x, atoms[2 * c + 2].y>>
               /\ \A k \in 0..3 :
                    Cardinality({n \in 1..Len(atoms) : atoms[n].z = k * spacing}) = 18

\* A query without a Miller index, of an element outside the tables, was
\* built into 72 atoms.
C10_Witness ==
    \E b \in BuiltOk :
        /\ C6_Groups(b.query) = {}
        /\ b.result.value.formula \notin DOMAIN ELEMENT_PROPERTIES
        /\ b.result.value.millerIndex = "(111)"
        /\ Len(b.result.value.atoms) = 72

\* C11: a query whose parsed Miller index is any 3-digit value other than 111
\* yields exactly 64 atoms, one for each cell of the 4 x 4 x 4 grid (push c + 1
\* is the atom of cell c, no two atoms at the same place, 16 to a layer), the
\* atoms of layer k at height k * a/2 (1.8075 A for Cu), and millerIndex is
\* the parsed index in parentheses.
C11_OtherFaces64Atoms ==
    \A b \in BuiltOk :
        C6_Miller(b.query) # "(111)" =>
            LET atoms == b.result.value.atoms
                a == PropsOf(b.result.value.formula).latticeConstant
                Place(n) == <<atoms[n].x, atoms[n].y, atoms[n].z>>
            IN /\ b.result.value.millerIndex = C6_Miller(b.query)
               /\ Len(atoms) = 64
               /\ \A c \in 0..63 : 2 * atoms[c + 1].z = (c \div 16) * a
               /\ \A m, n \in 1..Len(atoms) : m # n => Place(m) # Place(n)
               /\ \A k \in 0..3 :
                    Cardinality({n \in 1..Len(atoms) : 2 * atoms[n].z = k * a}) = 16
               /\ b.result.value.formula = "Cu" =>
                    10 * atoms[17].z = mA(18075)

\* "Cu(100)" was built: 64 atoms, the second layer 1.8075 A up.
C11_Witness ==
    \E b \in BuiltOk :
        /\ b.query = <<"C", "u", "(", "1", "0", "0", ")">>
        /\ b.result.value.millerIndex = "(100)"
        /\ Len(b.result.value.atoms) = 64
        /\ 10 * b.result.value.atoms[17].z = mA(18075)

\* The spacing between two layers of a built slab, from its atoms: the height
\* of the second layer (the first lies at height 0).
C12_Spacing(atoms) ==
    LET heights == {atoms[n].z : n \in 1..Len(atoms)} \ {0}
    IN CHOOSE h \in heights : \A g \in heights : h <= g

\* The number of layers of a built slab.
C12_Layers(atoms) == Cardinality({atoms[n].z : n \in 1..Len(atoms)})

\* What the arithmetic of the other-termination path loses at the resolution
\* of the model on the way from a to d = a/sqrt(2) and back to a/2 (d is off
\* by less than 2 units, so 2 * d * sqrt(2) by less than 8); the (111) path
\* takes its spacing as it is.
C12_Rounding(face) == IF face = "(111)" THEN 0 ELSE mA(4)

C16_SequentialIds ==
    \A b \in BuiltOk :
        LET atoms == b.result.value.atoms
        IN /\ \A n \in 1..Len(atoms) : atoms[n].id = n - 1
           /\ Cardinality({atoms[n].id : n \in 1..Len(atoms)}) = Len(atoms)

\* A slab of 64 atoms was built, its last atom numbered 63.
C16_Witness ==
    \E b \in BuiltOk :
        /\ Len(b.result.value.atoms) = 64
        /\ b.result.value.atoms[64].id = 63
        /\ b.result.value.atoms[17].id = 16

\* What the code pushed and drew in an analysis: the ids of the candidate
\* sites in the order of the pushes, and the number of values Math.random()
\* handed out for the sampling, before the scoring loop draws one value per
\* candidate.
C19_Pushed(a) ==
    LET surfaceAtoms == SurfaceAtoms(a.structure.atoms)
        pairs == WindowPairs(surfaceAtoms)
        found == TopAndBridge(surfaceAtoms, pairs, a.rnd)
    IN [ids |-> [n \in 1..Len(found) |-> found[n].id]
                \o (IF NeedsHollow(found) THEN <<"hollow-1">> ELSE <<>>),
        drawn |-> Len(surfaceAtoms) + Len(pairs)]

\* The place of a returned site among the candidates pushed.
C19_PushIndex(pushed, site) ==
    CHOOSE n \in 1..Len(pushed.ids) : pushed.ids[n] = site.id

\* The value Math.random() handed out for the noise of a returned site.
C19_Draw(a, pushed, site) == a.rnd[pushed.drawn + C19_PushIndex(pushed, site)]

\* The offsets of the site types, in units of 1/5000 eV.
C19_Offset(type) ==
    CASE type = "Top" -> 5 * 500
      [] type = "Bridge" -> -(2 * 500)
      [] type = "Hollow" -> -(8 * 500)

\* What is left of the energy of a returned site without offset and noise.
C19_BaseOf(a, pushed, site) ==
    site.energy - C19_Offset(site.type) - (C19_Draw(a, pushed, site) - 500)

C13_AuCO == {a \in AnalysedOk : a.structure.formula = "Au" /\ a.adsorbate = <<"C", "O">>}

\* C13 as claimed: on an Au slab with adsorbate "CO" the electronegativity of
\* the adsorbate resolves to 2.55, so the base binding energy, before offset
\* and noise, is -0.5 x |2.54 - 2.55| = -0.005 eV.
C13_BaseOfCOIs5meV ==
    \A a \in C13_AuCO :
        LET pushed == C19_Pushed(a)
        IN \A n \in 1..Len(a.result.value.sites) :
            C19_BaseOf(a, pushed, a.result.value.sites[n]) * 1000 = -(5 * 5000)

\* C13 amended: on an Au slab with adsorbate "CO" the electronegativity of
\* the adsorbate resolves to 3.44, the label containing "O", so the base
\* binding energy is -0.5 x |2.54 - 3.44| = -0.45 eV.
C13_BaseOfCOIs450meV ==
    \A a \in C13_AuCO :
        LET pushed == C19_Pushed(a)
        IN \A n \in 1..Len(a.result.value.sites) :
            C19_BaseOf(a, pushed, a.result.value.sites[n]) * 1000 = -(450 * 5000)

\* "CO" was analysed on an Au row, with sites of all three types returned.
C13_Witness ==
    \E a \in C13_AuCO :
        {a.result.value.sites[n].type : n \in 1..Len(a.result.value.sites)}
            = {"Top", "Bridge", "Hollow"}

\* C14: for a structure with at least one atom analyze succeeds with at least
\* one site, whatever the sampling keeps.
C14_AtLeastOneSite ==
    \A a \in Analysed :
        Len(a.structure.atoms) >= 1 =>
            /\ a.result.status = "fulfilled"
            /\ Len(a.result.value.sites) >= 1

\* The sampling skipped every atom of a row and kept no pair, and the hollow
\* site is the only site returned.
C14_Witness ==
    \E a \in AnalysedOk :
        /\ Len(WindowPairs(SurfaceAtoms(a.structure.atoms))) >= 2
        /\ \A n \in 1..Len(SurfaceAtoms(a.structure.atoms)) : TopSkipped(a.rnd[n])
        /\ Len(a.result.value.sites) = 1
        /\ a.result.value.sites[1].type = "Hollow"

\* C17: the ids of the sites of one result are pairwise distinct, for every
\* structure whose atom ids are unique.
C17_SiteIdsDistinct ==
    \A a \in AnalysedOk :
        LET atoms == a.structure.atoms
            sites == a.result.value.sites
        IN (\A m, n \in 1..Len(atoms) : m # n => atoms[m].id # atoms[n].id)
           => \A m, n \in 1..Len(sites) : m # n => sites[m].id # sites[n].id

\* A result with two top sites, two bridge sites and the hollow site.
C17_Witness ==
    \E a \in AnalysedOk :
        LET sites == a.result.value.sites
            OfType(t) == {n \in 1..Len(sites) : sites[n].type = t}
        IN /\ Cardinality(OfType("Top")) >= 2
           /\ Cardinality(OfType("Bridge")) >= 2
           /\ Cardinality(OfType("Hollow")) = 1

\* The label without its digits.
C18_Stripped(label) ==
    LET Kept(c) == c \notin {"0", "1", "2", "3", "4", "5", "6", "7", "8", "9"}
    IN SelectSeq(label, Kept)

\* The electronegativity of a label, in hundredths: 3.44 if it contains "O",
\* otherwise 3.04 if it contains "N", otherwise 2.55.
C18_Bucket(label) ==
    LET chars == {label[n] : n \in 1..Len(label)}
    IN IF "O" \in chars THEN 344 ELSE IF "N" \in chars THEN 304 ELSE 255

\* C18: the effective electronegativity of the adsorbate is 3.44 if the label
\* contains "O", otherwise 3.04 if it contains "N", otherwise 2.55, whether
\* the digits of the label are stripped or not; a label matching no rule
\* does not make the analysis fail.
C18_AdsorbateBuckets ==
    \A a \in Analysed :
        /\ C18_Bucket(a.adsorbate) = C18_Bucket(C18_Stripped(a.adsorbate))
        /\ a.structure.atoms # <<>> => a.result.status = "fulfilled"
        /\ a.result.status = "fulfilled" =>
             LET pushed == C19_Pushed(a)
                 bucket == C18_Bucket(C18_Stripped(a.adsorbate))
             IN \A n \in 1..Len(a.result.value.sites) :
                2 * C19_BaseOf(a, pushed, a.result.value.sites[n])
                    = -(50 * Abs(PropsOf(a.structure.formula).electronegativity - bucket))

\* A label with N, O and a digit, and a label matching no rule, were analysed.
C18_Witness ==
    \E a \in AnalysedOk :
        /\ a.adsorbate \in { <<"N", "O", "2">>, <<"c", "o">> }
        /\ Len(a.result.value.sites) >= 1

\* C19: the energy of every returned site is base + offset(type) + noise,
\* with base = -0.5 x |EN_metal - EN_adsorbate|, offset +0.5 for Top, -0.2 for
\* Bridge and -0.8 for Hollow, and |noise| <= 0.1; each site has a draw of
\* its own for its noise.
C19_EnergyFormula ==
    \A a \in AnalysedOk :
        LET sites == a.result.value.sites
            pushed == C19_Pushed(a)
            base == -(25 * Abs(PropsOf(a.structure.formula).electronegativity
                               - C18_Bucket(a.adsorbate)))
            index == [n \in 1..Len(sites) |-> C19_PushIndex(pushed, sites[n])]
        IN /\ \A n \in 1..Len(sites) :
                LET noise == sites[n].energy - base - C19_Offset(sites[n].type)
                IN /\ noise = a.rnd[pushed.drawn + index[n]] - 500
                   /\ Abs(noise) <= 500
           /\ \A m, n \in 1..Len(sites) : m # n => index[m] # index[n]

\* Two top sites of one result with the noise at its two ends.
C19_Witness ==
    \E a \in AnalysedOk :
        \E m, n \in 1..Len(a.result.value.sites) :
            /\ a.result.value.sites[m].type = "Top"
            /\ a.result.value.sites[n].type = "Top"
            /\ a.result.value.sites[n].energy - a.result.value.sites[m].energy = 999

\* The place of a site type in the order Hollow, Bridge, Top.
C20_Rank(type) ==
    CASE type = "Hollow" -> 1 [] type = "Bridge" -> 2 [] type = "Top" -> 3

\* C20: in every result the sites come grouped by type, Hollow before Bridge
\* before Top, and a site of an earlier type has strictly lower energy than a
\* site of a later type, whatever the noise.
C20_GroupedByType ==
    \A a \in AnalysedOk :
        LET sites == a.result.value.sites
        IN \A m, n \in 1..Len(sites) :
            /\ m < n => C20_Rank(sites[m].type) <= C20_Rank(sites[n].type)
            /\ C20_Rank(sites[m].type) < C20_Rank(sites[n].type)
                 => sites[m].energy < sites[n].energy

\* A result of all three types in which the hollow site drew the highest
\* noise and a bridge site and a top site the lowest.
C20_Witness ==
    \E a \in AnalysedOk :
        LET sites == a.result.value.sites
            pushed == C19_Pushed(a)
        IN \E h, b, t \in 1..Len(sites) :
               /\ sites[h].type = "Hollow" /\ sites[b].type = "Bridge"
               /\ sites[t].type = "Top"
               /\ C19_Draw(a, pushed, sites[h]) = 999
               /\ C19_Draw(a, pushed, sites[b]) = 0
               /\ C19_Draw(a, pushed, sites[t]) = 0

\* The result of the invocation of a frame when it runs alone, on the same
\* inputs and with the same values drawn from Math.random().
C15_Alone(f) ==
    IF f.op = "build" THEN generateSlabStructure(f.input)
    ELSE LET structure == f.input[1]
             sampling == SamplingDraws(structure)
         IN IF Len(f.rnd) < sampling THEN Undefined
            ELSE IF Len(f.rnd) # sampling + LaterDraws(structure, SubSeq(f.rnd, 1, sampling))
            THEN Undefined
            ELSE calculateAdsorptionPhysics(structure, f.input[2], f.rnd)

\* The invocations in flight.
C15_Running == {p \in Slots : calls[p].pc \notin {"idle", "done"}}

\* The heap cells an invocation in flight works on.
C15_Cells(p) ==
    IF calls[p].local = <<>> THEN {}
    ELSE IF calls[p].op = "build" THEN {calls[p].local.atoms}
    ELSE {calls[p].local.sites}

\* C15: build and analyze invocations of independent requests do not
\* interfere, however their steps interleave: no two invocations in flight
\* work on the same array, and the result of every invocation is the result
\* it gives when it runs alone on the same inputs with the same draws.
C15_NoInterference ==
    /\ \A p, q \in C15_Running : p # q => C15_Cells(p) \cap C15_Cells(q) = {}
    /\ \A p \in Slots : calls[p].pc = "done" => calls[p].result = C15_Alone(calls[p])

\* An analysis returned its sites while a build in another slot had pushed
\* some of its layers and not yet returned.
C15_Witness ==
    \E p, q \in Slots :
        /\ calls[p].op = "analyze" /\ calls[p].pc = "done"
        /\ calls[p].result.status = "fulfilled"
        /\ Len(calls[p].result.value.sites) = 2
        /\ calls[q].op = "build" /\ calls[q].pc = "layer"
        /\ calls[q].local.k = 2
        /\ Len(arrays[calls[q].local.atoms]) = 36

\* The scored candidates of an analysis, in the order of the pushes.
C21_Candidates(a) ==
    LET surfaceAtoms == SurfaceAtoms(a.structure.atoms)
        pairs == WindowPairs(surfaceAtoms)
        found == TopAndBridge(surfaceAtoms, pairs, a.rnd)
        sites == IF NeedsHollow(found)
                 THEN Append(found, HollowSite(surfaceAtoms[1], MaxZ(a.structure.atoms)))
                 ELSE found
    IN Scored(sites, baseBinding(a.structure.formula, a.adsorbate), a.rnd,
              Len(surfaceAtoms) + Len(pairs))

\* C21: the result holds exactly min(8, n) of the n scored candidates, and
\* where candidates are left out, each of them has an energy greater than or
\* equal to that of every site kept, and every site kept is a candidate.
C21_KeepsMostStable ==
    \A a \in AnalysedOk :
        LET sites == a.result.value.sites
            n == a.result.value.summary.found
        IN /\ Len(sites) = IF n < 8 THEN n ELSE 8
           /\ n > 8 =>
                LET candidates == C21_Candidates(a)
                    keptIds == {sites[k].id : k \in 1..Len(sites)}
                    kept == {c \in 1..Len(candidates) : candidates[c].id \in keptIds}
                IN /\ Len(candidates) = n
                   /\ Cardinality(kept) = 8
                   /\ \A k \in 1..Len(sites) : \E c \in kept : candidates[c] = sites[k]
                   /\ \A c \in (1..n) \ kept :
                        \A k \in 1..Len(sites) : candidates[c].energy >= sites[k].energy

\* Nine candidates were scored and the one left out lies strictly above the
\* least stable site kept.
C21_Witness ==
    \E a \in AnalysedOk :
        /\ a.result.value.summary.found = 9
        /\ Len(a.result.value.sites) = 8
        /\ \E c \in 1..Len(C21_Candidates(a)) :
             C21_Candidates(a)[c].energy > a.result.value.sites[8].energy

\* The places in the atom sequence of the atoms of the surface band: z
\* strictly greater than the greatest z minus 1.5 A.
C24_Surface(atoms) ==
    {i \in 1..Len(atoms) :
        \A j \in 1..Len(atoms) : atoms[i].z > atoms[j].z - mA(1500)}

\* C22: after the sampling of a call, a Hollow candidate is added, once, if
\* and only if fewer than 5 top and bridge candidates were produced: a call
\* on a structure without atoms, which produces none, returns a result with
\* the Hollow site.
C22_HollowWheneverFewerThan5 ==
    \A a \in Analysed :
        a.structure.atoms = <<>> =>
            /\ a.result.status = "fulfilled"
            /\ \E k \in 1..Len(a.result.value.sites) :
                 a.result.value.sites[k].type = "Hollow"

\* C22 on the calls that return: a Hollow candidate is added, once, if and
\* only if fewer than 5 top and bridge candidates were produced; it lies
\* 1.2 A and 0.8 A beside the first surface atom, 1.5 A above the highest
\* atom.  So a result with a Hollow site has at most 5 sites and the Hollow
\* site is its first.
C22_HollowFallback ==
    \A a \in AnalysedOk :
        LET sites == a.result.value.sites
            atoms == a.structure.atoms
            hollow == {k \in 1..Len(sites) : sites[k].type = "Hollow"}
            others == a.result.value.summary.found - Cardinality(hollow)
        IN /\ Cardinality(hollow) <= 1
           /\ (hollow # {}) <=> (others < 5)
           /\ hollow # {} =>
                LET first == CHOOSE i \in C24_Surface(atoms) :
                                 \A j \in C24_Surface(atoms) : i <= j
                IN /\ Len(sites) <= 5
                   /\ hollow = {1}
                   /\ sites[1].coordinates[1] = atoms[first].x + mA(1200)
                   /\ sites[1].coordinates[2] = atoms[first].y + mA(800)
                   /\ \E j \in 1..Len(atoms) :
                        /\ \A i \in 1..Len(atoms) : atoms[i].z <= atoms[j].z
                        /\ sites[1].coordinates[3] = atoms[j].z + mA(1500)

\* A result with the Hollow site and four others, on a structure whose first
\* atom is not of the surface.
C22_Witness ==
    \E a \in AnalysedOk :
        /\ 1 \notin C24_Surface(a.structure.atoms)
        /\ Len(a.result.value.sites) >= 3
        /\ a.result.value.sites[1].type = "Hollow"

\* A result without a Hollow site: 5 candidates or more of the other types.
C22_WitnessNoHollow ==
    \E a \in AnalysedOk :
        /\ a.result.value.summary.found = 5
        /\ \A k \in 1..5 : a.result.value.sites[k].type # "Hollow"

\* The pairs of places of surface atoms that a Bridge site names and lies
\* over.
C23_PairsOf(atoms, site) ==
    {pair \in C24_Surface(atoms) \X C24_Surface(atoms) :
        /\ pair[1] < pair[2]
        /\ site.id = "brg-" \o ToString(atoms[pair[1]].id) \o "-"
                             \o ToString(atoms[pair[2]].id)
        /\ 2 * site.coordinates[1] = atoms[pair[1]].x + atoms[pair[2]].x
        /\ 2 * site.coordinates[2] = atoms[pair[1]].y + atoms[pair[2]].y
        /\ 2 * (site.coordinates[3] - mA(1800)) = atoms[pair[1]].z + atoms[pair[2]].z}

\* The square of the distance between two atoms.
C23_Dist2(a1, a2) ==
    (a1.x - a2.x) * (a1.x - a2.x) + (a1.y - a2.y) * (a1.y - a2.y)
        + (a1.z - a2.z) * (a1.z - a2.z)

\* C23: every Bridge site is the site of one unordered pair of distinct
\* surface atoms more than 2.0 A and less than 3.0 A apart, at the midpoint of
\* the pair raised by 1.8 A; no pair has two Bridge sites.
C23_BridgeSites ==
    \A a \in AnalysedOk :
        LET sites == a.result.value.sites
            atoms == a.structure.atoms
            bridges == {k \in 1..Len(sites) : sites[k].type = "Bridge"}
        IN /\ \A k \in bridges :
                /\ Cardinality(C23_PairsOf(atoms, sites[k])) = 1
                /\ \A pair \in C23_PairsOf(atoms, sites[k]) :
                      /\ C23_Dist2(atoms[pair[1]], atoms[pair[2]]) > mA(2000) * mA(2000)
                      /\ C23_Dist2(atoms[pair[1]], atoms[pair[2]]) < mA(3000) * mA(3000)
           /\ \A k, m \in bridges :
                k # m => C23_PairsOf(atoms, sites[k]) \cap C23_PairsOf(atoms, sites[m]) = {}

\* A Bridge site was returned for a row that also has neighbours too far
\* apart for one.
C23_Witness ==
    \E a \in AnalysedOk :
        /\ Len(a.structure.atoms) >= 3
        /\ \E k \in 1..Len(a.result.value.sites) :
             /\ a.result.value.sites[k].type = "Bridge"
             /\ a.result.value.sites[k].id = "brg-0-1"

\* The row on the ends of the window was analysed and every atom kept its
\* Top site.
C23_WitnessEdge ==
    \E a \in AnalysedOk :
        /\ a.structure = EdgeStructure("Au")
        /\ Len(a.result.value.sites) = 4

\* The places of the surface atoms that a Top site names and lies over.
C24_AtomsOf(atoms, site) ==
    {i \in C24_Surface(atoms) :
        /\ site.id = "top-" \o ToString(atoms[i].id)
        /\ site.coordinates = <<atoms[i].x, atoms[i].y, atoms[i].z + mA(2000)>>}

\* C24: every Top site lies over one surface atom, at its x and y and 2.0 A
\* higher; no surface atom has two Top sites and no other atom has one.
C24_TopSites ==
    \A a \in AnalysedOk :
        LET sites == a.result.value.sites
            atoms == a.structure.atoms
            tops == {k \in 1..Len(sites) : sites[k].type = "Top"}
        IN /\ \A k \in tops : Cardinality(C24_AtomsOf(atoms, sites[k])) = 1
           /\ \A k, m \in tops :
                k # m => C24_AtomsOf(atoms, sites[k]) \cap C24_AtomsOf(atoms, sites[m]) = {}

\* A Top site over the surface atom of a structure whose other atom lies
\* exactly 1.5 A lower.
C24_Witness ==
    \E a \in AnalysedOk :
        /\ Len(a.structure.atoms) = 2
        /\ C24_Surface(a.structure.atoms) = {2}
        /\ \E k \in 1..Len(a.result.value.sites) : a.result.value.sites[k].id = "top-1"

\* The slabs built for the elements of the table.
C25_Tabulated == {b \in BuiltOk : C6_Element(b.query) \in DOMAIN ELEMENT_PROPERTIES}

\* The pushes of the topmost layer, k = 3: the last 18 of the (111) loops, the
\* last 16 of the other.
C25_TopLayer(structure) ==
    LET n == IF structure.millerIndex = "(111)" THEN 2 * 3 * 3 ELSE 4 * 4
    IN SubSeq(structure.atoms, Len(structure.atoms) - n + 1, Len(structure.atoms))

\* C25: for every slab built for a tabulated element, on either path, the
\* atoms the analysis selects as surface (z strictly greater than the
\* greatest z minus 1.5 A) are exactly the atoms of the topmost layer: 18 on
\* the (111) path, 16 on the other, and none of a lower layer.
C25_SurfaceIsTopLayer ==
    \A b \in C25_Tabulated :
        LET structure == b.result.value
            surfaceAtoms == SurfaceAtoms(structure.atoms)
        IN /\ surfaceAtoms = C25_TopLayer(structure)
           /\ Len(surfaceAtoms) = IF structure.millerIndex = "(111)" THEN 18 ELSE 16
           /\ \A n \in 1..Len(surfaceAtoms) :
                \A m \in 1..Len(structure.atoms) : structure.atoms[m].z <= surfaceAtoms[n].z

\* The slab with the closest layers was built, Ni on the other path (1.762 A
\* apart): its surface atoms are the 16, the layer below lies within 2 A.
C25_Witness ==
    \E b \in C25_Tabulated :
        /\ b.result.value.formula = "Ni" /\ b.result.value.millerIndex = "(100)"
        /\ Len(SurfaceAtoms(b.result.value.atoms)) = 16
        /\ b.result.value.atoms[48].z > b.result.value.atoms[64].z - mA(2000)

\* A (111) slab was built: its surface atoms are the 18.
C25_Witness111 ==
    \E b \in C25_Tabulated :
        /\ b.result.value.millerIndex = "(111)"
        /\ Len(SurfaceAtoms(b.result.value.atoms)) = 18

\* The slabs built on the (111) path.
C26_Built111 == {b \in BuiltOk : b.result.value.millerIndex = "(111)"}

\* The in-plane shift of layer k, in sixths of the y spacing and halves of the
\* x spacing.
C26_ShiftX(k, xs) == IF k % 3 = 1 THEN xs \div 2 ELSE 0
C26_ShiftY(k, ys) == (k % 3) * (ys \div 6)

\* C26: on the (111) path layer k is shifted in-plane according to k mod 3
\* (0: not; 1: half an x spacing in x and a sixth of the y spacing in y; 2:
\* two sixths of the y spacing in y), the second atom of each cell lies half
\* the x and y spacings beside the first, and every position is wrapped into
\* the footprint: 0 <= x < 3 x spacings, 0 <= y < 3 y spacings.
C26_ShiftsAndWrap ==
    \A b \in C26_Built111 :
        LET atoms == b.result.value.atoms
            xs == b.result.value.latticeVectors[1][1] \div 3
            ys == b.result.value.latticeVectors[2][2] \div 3
        IN /\ Len(atoms) = 72
           /\ \A k \in 0..3, j \in 0..2, i \in 0..2 :
                LET first == atoms[2 * (9 * k + 3 * j + i) + 1]
                    second == atoms[2 * (9 * k + 3 * j + i) + 2]
                    x == i * xs + C26_ShiftX(k, xs)
                    y == j * ys + C26_ShiftY(k, ys)
                IN /\ first.x = x % (3 * xs)
                   /\ first.y = y % (3 * ys)
                   /\ second.x = (x + xs \div 2) % (3 * xs)
                   /\ second.y = (y + ys \div 2) % (3 * ys)
           /\ \A n \in 1..Len(atoms) :
                /\ 0 <= atoms[n].x /\ atoms[n].x < 3 * xs
                /\ 0 <= atoms[n].y /\ atoms[n].y < 3 * ys

\* A (111) slab was built in which the second atom of the last cell of a row
\* of layer 1 was wrapped from 3 x spacings to 0, and the first atom of that
\* cell lies at 2.5 x spacings.
C26_Witness ==
    \E b \in C26_Built111 :
        /\ b.result.value.atoms[24].x = 0
        /\ 2 * b.result.value.atoms[23].x = 5 * (b.result.value.latticeVectors[1][1] \div 3)
        /\ b.result.value.atoms[24].y > b.result.value.atoms[23].y

\* C27: in every structure returned by build, on both paths, no two atoms
\* lie at the same (x, y, z), the wrapped atoms of the (111) path included.
C27_DistinctPositions ==
    \A b \in BuiltOk :
        LET atoms == b.result.value.atoms
        IN \A n, m \in 1..Len(atoms) :
             n # m => <<atoms[n].x, atoms[n].y, atoms[n].z>>
                        # <<atoms[m].x, atoms[m].y, atoms[m].z>>

\* A (111) slab was built, with an atom wrapped to x = 0 in a layer whose
\* other atoms at x = 0 lie at another y.
C27_Witness ==
    \E b \in BuiltOk :
        /\ b.result.value.millerIndex = "(111)"
        /\ Len(b.result.value.atoms) = 72
        /\ b.result.value.atoms[24].x = 0
        /\ \E n \in 19..36 : n # 24 /\ b.result.value.atoms[n].x = 0

\* A slab of the other path was built, its odd layers shifted over the even.
C27_Witness100 ==
    \E b \in BuiltOk :
        /\ b.result.value.millerIndex = "(100)"
        /\ b.result.value.atoms[17].x > b.result.value.atoms[1].x

\* C28: analyze leaves its input unchanged.  calls[p].input is the
\* MaterialStructure (and the adsorbate) the caller passed in and still
\* holds: no step of an analysis in flight, to its return or its failure,
\* changes the atom sequence, a field of an atom, the lattice vectors or a
\* scalar field of it.
C28_InputUnchanged ==
    [][\A p \in Slots :
          (calls[p].op = "analyze" /\ calls[p].pc \notin {"idle", "done"})
              => calls'[p].input = calls[p].input]_vars

\* An analysis of the structure of two atoms has returned its result, and
\* the structure is what was passed in.
C28_Witness ==
    \E p \in Slots :
        /\ calls[p].op = "analyze" /\ calls[p].pc = "done"
        /\ calls[p].result.status = "fulfilled"
        /\ calls[p].input = <<RowStructure("Cu", 1, 1), <<"C", "O">> >>

\* An analysis has failed, and the structure is what was passed in.
C28_WitnessFailed ==
    \E p \in Slots :
        /\ calls[p].op = "analyze" /\ calls[p].pc = "done"
        /\ calls[p].result.status = "rejected"
        /\ calls[p].input = <<RowStructure("Au", 0, 0), <<"C", "O">> >>

\* C29: in the App, however the build handler and the analysis handler
\* interleave, an analysisResult that is not null was computed from the
\* structure now held in the state, and status COMPLETED implies that the
\* structure is not null.
C29_ResultOfCurrentStructure ==
    /\ app.analysisResult # Null => app.analysisResult.structure = app.structure
    /\ app.status = "COMPLETED" => app.structure # Null

\* The stale result on display: the structure of a build started while an
\* analysis was in flight is shown with the result of that analysis.
C29_StaleResultShown ==
    /\ app.handlers = {}
    /\ app.structure # Null /\ app.analysisResult # Null
    /\ app.analysisResult.structure # app.structure

\* The handlers that end with the step.
C30_Ending(handler) == {h \in app.handlers \ app'.handlers : h.handler = handler /\ h.pc = "service"}

\* C30: every handler that started ends as follows: a build with status IDLE
\* and the structure set, or with status ERROR and the structure still null;
\* an analysis with status COMPLETED and analysisResult set, or with status
\* ERROR and analysisResult as it was.
C30_HandlersEndAsStated ==
    [][/\ \A h \in C30_Ending("handleGenerateStructure") :
             \/ app'.status = "IDLE" /\ app'.structure # Null
             \/ app'.status = "ERROR" /\ app'.structure = Null
       /\ \A h \in C30_Ending("handleRunAnalysis") :
             \/ app'.status = "COMPLETED" /\ app'.analysisResult # Null
             \/ app'.status = "ERROR" /\ app'.analysisResult = app.analysisResult]_vars

\* C30, the part on progress: every handler that started ends.
C30_EveryHandlerEnds ==
    \A id \in 1..MaxClicks :
        InFlight(id) ~> ~InFlight(id)

\* C30, the part on rest: with no handler in flight the status is neither
\* LOADING_STRUCTURE nor ANALYZING.
C30_SettledAtRest ==
    app.handlers = {} => app.status \notin {"LOADING_STRUCTURE", "ANALYZING"}

\* A build has failed and left status ERROR beside the structure that a
\* later build had set.
C30_FailedBuildBesideStructure ==
    /\ app.handlers = {}
    /\ app.status = "ERROR" /\ app.structure # Null
    /\ app.structure.build = 4

====
